---------------------------- MODULE Spec2Model ----------------------------
(***************************************************************************)
(* PwnsianCartograph: the block colour store (blocks.cpp: BlockID,         *)
(* BlockColors) and the region file index (AnvilFileWorld.cpp:             *)
(* RegionFileWorld).                                                       *)
(*                                                                         *)
(* Strings are sequences of one-character strings.  size_t positions are   *)
(* 0-based as in the source; std::string::npos is modelled by Npos = -1,   *)
(* so that npos + 1 = 0 as in unsigned arithmetic.                         *)
(***************************************************************************)
EXTENDS Integers, Sequences, FiniteSets, TLC

VARIABLES
    \* BlockID(const std::string&) / operator std::string
    str,          \* the string handed to BlockID(const std::string&)
    bid,          \* the BlockID constructed from it: [st, id, meta]
    out,          \* the result of operator std::string on bid: [done, s]
    \* BlockColors::computeColor
    image,        \* the decoded image: [w, h, pixels]
    avg,          \* the colour computeColor returned for it: [done, color]
    \* RegionFileWorld
    dirOk,        \* opendir(rootpath + "/region/") succeeds
    dirEntries,   \* the names readdir returns, in order
    regions,      \* RegionFileWorld::regions: RegionCoord -> the files loaded
                  \* into the RegionFile at that key, in order
    built,        \* "no" | "yes" | "fatal": outcome of the constructor
    size,         \* the last result of getSize(): [done, x, y]
    \* BlockColors
    archive,      \* the entries of the zip archive: [name, crc, img]
    cacheFile,    \* the cache file: [ok, lines]; ok: it exists and parses
                  \* as JSON; lines: its members [key, obj, crc, color]
    blockColors,  \* BlockColors::blockColors: BlockID -> [color, crc]
    run,          \* what the last call of load() did (see NoRun)
    ret           \* the last getBlockColor call: [done, id, meta, color]

idVars     == <<str, bid, out>>
colorVars  == <<image, avg>>
regionVars == <<dirOk, dirEntries, regions, built, size>>
storeVars  == <<archive, cacheFile, blockColors, run, ret>>
vars       == <<idVars, colorVars, regionVars, storeVars>>

\* Results not produced yet
NoBlockID == [st |-> "none", id |-> 0, meta |-> 0]
NoString  == [done |-> FALSE, s |-> <<>>]
NoColor   == [done |-> FALSE, color |-> <<0, 0, 0, 0>>]
NoSize    == [done |-> FALSE, x |-> 0, y |-> 0]
NoQuery   == [done |-> FALSE, id |-> 0, meta |-> 0, color |-> <<0, 0, 0, 0>>]

(***************************************************************************)
(* std::string primitives                                                  *)
(***************************************************************************)
Npos == -1

Min(a, b) == IF a < b THEN a ELSE b

\* std::string::find(c, pos): first position >= pos holding c, else npos.
Find(s, c, pos) ==
    LET hits == {i \in 0..(Len(s) - 1) : i >= pos /\ s[i + 1] = c}
    IN  IF hits = {} THEN Npos
        ELSE CHOOSE i \in hits : \A j \in hits : i <= j

\* std::string::substr(pos, count): count characters from pos, or up to the
\* end of the string when fewer remain (count = npos: all of them).
Substr(s, pos, count) ==
    LET last == IF count = Npos THEN Len(s) ELSE Min(pos + count, Len(s))
    IN  SubSeq(s, pos + 1, last)

\* substr throws std::out_of_range when pos > size().
SubstrThrows(s, pos) == pos > Len(s)

Digits == <<"0", "1", "2", "3", "4", "5", "6", "7", "8", "9">>
IsDigit(c) == \E i \in 1..10 : Digits[i] = c
DigitVal(c) == (CHOOSE i \in 1..10 : Digits[i] = c) - 1
IsSpace(c) == c \in {" ", "\t", "\n", "\r"}

RECURSIVE SkipSpace(_)
SkipSpace(s) ==
    IF s # <<>> /\ IsSpace(Head(s)) THEN SkipSpace(Tail(s)) ELSE s

RECURSIVE DigitRun(_, _)
DigitRun(s, acc) ==
    IF s # <<>> /\ IsDigit(Head(s))
    THEN DigitRun(Tail(s), 10 * acc + DigitVal(Head(s)))
    ELSE acc

\* std::atoi: leading white space, an optional sign, then the longest run of
\* decimal digits; 0 when there is none.
atoi(s) ==
    LET t == SkipSpace(s)
    IN  IF t # <<>> /\ Head(t) = "-" THEN 0 - DigitRun(Tail(t), 0)
        ELSE IF t # <<>> /\ Head(t) = "+" THEN DigitRun(Tail(t), 0)
        ELSE DigitRun(t, 0)

RECURSIVE NatToStr(_)
NatToStr(n) ==
    IF n < 10 THEN <<Digits[n + 1]>>
    ELSE NatToStr(n \div 10) \o <<Digits[(n % 10) + 1]>>

\* operator<< of an int (or unsigned) on a stream: decimal, '-' when negative.
IntToStr(n) == IF n < 0 THEN <<"-">> \o NatToStr(0 - n) ELSE NatToStr(n)

(***************************************************************************)
(* BlockID                                                                 *)
(***************************************************************************)
\* The value of BlockID::meta when the string constructor does not assign it
\* (the member's declaration is in blocks.h).
DefaultMeta == 0

\* BlockID::BlockID(int id, int meta)
BlockID(id, meta) == <<id, meta>>

\* BlockIDFromString with the meta substring started one character early, on
\* the '-' itself.
BlockIDFromString_metaAtDash(string) ==
    LET dashpos == Find(string, "-", 0)
        dotpos  == Find(string, ".", 0)
        id      == atoi(Substr(string, 0, dashpos))
        meta    == IF dashpos # Npos
                   THEN atoi(Substr(string, dashpos, dotpos))
                   ELSE DefaultMeta
    IN  BlockID(id, meta)

\* BlockID::BlockID(const std::string&)
BlockIDFromString(string) ==
    LET dashpos == Find(string, "-", 0)
        dotpos  == Find(string, ".", 0)
        id      == atoi(Substr(string, 0, dashpos))
        meta    == IF dashpos # Npos
                   THEN atoi(Substr(string, dashpos + 1, dotpos))
                   ELSE DefaultMeta
    IN  BlockID(id, meta)

\* The string constructor raises iff one of its substr calls does.
BlockIDFromStringThrows(string) ==
    LET dashpos == Find(string, "-", 0)
    IN  SubstrThrows(string, 0)
        \/ (dashpos # Npos /\ SubstrThrows(string, dashpos + 1))

\* BlockID::operator<
BlockIDLess(a, b) ==
    IF a[1] < b[1] THEN TRUE
    ELSE IF a[1] = b[1] THEN a[2] < b[2]
    ELSE FALSE

\* BlockID::operator std::string
BlockIDToString(b) == IntToStr(b[1]) \o <<"-">> \o IntToStr(b[2])

(***************************************************************************)
(* std::map                                                                *)
(***************************************************************************)
EmptyMap == [k \in {} |-> 0]
\* m[k] = v
Put(m, k, v) == [x \in (DOMAIN m) \cup {k} |-> IF x = k THEN v ELSE m[x]]

(***************************************************************************)
(* BlockColors::computeColor (the averaging version)                       *)
(***************************************************************************)
SDL_ALPHA_TRANSPARENT == 0
SDL_ALPHA_OPAQUE == 255

\* Uint8(x)
Uint8(x) == x % 256

\* The loop over the pixel buffer: the sum of channel ch over the pixels whose
\* alpha is not SDL_ALPHA_TRANSPARENT.
RECURSIVE SumChannel(_, _)
SumChannel(pixels, ch) ==
    IF pixels = <<>> THEN 0
    ELSE (IF Head(pixels)[4] # SDL_ALPHA_TRANSPARENT THEN Head(pixels)[ch] ELSE 0)
         + SumChannel(Tail(pixels), ch)

\* SDL_Color BlockColors::computeColor(entry), on the image lodepng::decode
\* gives for the entry: nPixels = w * h divides the sums.  The images of the
\* model have w * h >= 1 (w * h = 0 is a division by zero).
computeColor(img) ==
    LET nPixels == img.w * img.h
        avgR    == SumChannel(img.pixels, 1)
        avgG    == SumChannel(img.pixels, 2)
        avgB    == SumChannel(img.pixels, 3)
    IN  <<Uint8(avgR \div nPixels), Uint8(avgG \div nPixels),
          Uint8(avgB \div nPixels), SDL_ALPHA_OPAQUE>>

(***************************************************************************)
(* RegionFileWorld                                                         *)
(***************************************************************************)
\* parseFilename accepting a name as soon as two dots are found.
parseFilename_twoDots(filename) ==
    LET dotpos0 == Find(filename, ".", 0)
        dotpos1 == Find(filename, ".", dotpos0 + 1)
        dotpos2 == Find(filename, ".", dotpos1 + 1)
    IN  IF dotpos0 # Npos /\ dotpos1 # Npos
        THEN [valid |-> TRUE,
              x |-> atoi(Substr(filename, dotpos0 + 1, dotpos1)),
              z |-> atoi(Substr(filename, dotpos1 + 1, dotpos2))]
        ELSE [valid |-> FALSE, x |-> 0, z |-> 0]

\* RegionFileWorld::parseFilename
parseFilename(filename) ==
    LET dotpos0 == Find(filename, ".", 0)
        dotpos1 == Find(filename, ".", dotpos0 + 1)
        dotpos2 == Find(filename, ".", dotpos1 + 1)
    IN  IF dotpos0 # Npos /\ dotpos1 # Npos /\ dotpos2 # Npos
        THEN [valid |-> TRUE,
              x |-> atoi(Substr(filename, dotpos0 + 1, dotpos1)),
              z |-> atoi(Substr(filename, dotpos1 + 1, dotpos2))]
        ELSE [valid |-> FALSE, x |-> 0, z |-> 0]

\* The readdir loop of the constructor from its i-th entry on: every name
\* that parses is loaded into regions[coords].
RECURSIVE ReadDirLoop(_, _, _)
ReadDirLoop(entries, i, map) ==
    IF i > Len(entries) THEN map
    ELSE LET pair   == parseFilename(entries[i])
             coords == <<pair.x, pair.z>>
             before == IF coords \in DOMAIN map THEN map[coords] ELSE <<>>
         IN  IF pair.valid
             THEN ReadDirLoop(entries, i + 1,
                              Put(map, coords, Append(before, entries[i])))
             ELSE ReadDirLoop(entries, i + 1, map)

\* getSize with the minima and maxima taken over the loaded coordinates
\* alone, not started at 0.
getSize_noOrigin(map) ==
    LET xs   == IF DOMAIN map = {} THEN {0} ELSE {c[1] : c \in DOMAIN map}
        zs   == IF DOMAIN map = {} THEN {0} ELSE {c[2] : c \in DOMAIN map}
        minx == CHOOSE v \in xs : \A u \in xs : v <= u
        minz == CHOOSE v \in zs : \A u \in zs : v <= u
        maxx == CHOOSE v \in xs : \A u \in xs : v >= u
        maxz == CHOOSE v \in zs : \A u \in zs : v >= u
    IN  <<32 * 16 * (maxx + minx), 32 * 16 * (maxz + minz)>>

\* RegionFileWorld::getSize
getSize(map) ==
    LET xs   == {0} \cup {c[1] : c \in DOMAIN map}
        zs   == {0} \cup {c[2] : c \in DOMAIN map}
        minx == CHOOSE v \in xs : \A u \in xs : v <= u
        minz == CHOOSE v \in zs : \A u \in zs : v <= u
        maxx == CHOOSE v \in xs : \A u \in xs : v >= u
        maxz == CHOOSE v \in zs : \A u \in zs : v >= u
    IN  <<32 * 16 * (maxx + minx), 32 * 16 * (maxz + minz)>>

(***************************************************************************)
(* BlockColors                                                             *)
(***************************************************************************)
\* SDL_MapRGBA / SDL_GetRGBA for SDL_PIXELFORMAT_RGBA8888
SDL_MapRGBA(c) == ((c[1] * 256 + c[2]) * 256 + c[3]) * 256 + c[4]
SDL_GetRGBA(pixel) ==
    <<(pixel \div 16777216) % 256, (pixel \div 65536) % 256,
      (pixel \div 256) % 256, pixel % 256>>

\* Json::number_value() of a number written in decimal digits
JsonNumber(text) == DigitRun(text, 0)

\* The Json value of a key that is absent, or of any key of a null Json
JsonNull == [obj |-> FALSE, crc |-> <<>>, color |-> <<>>]

\* Json::parse(readFile(cacheFileName), parseErr): the members of the
\* top-level object, none when the file is missing or is not JSON.
JsonParse(file) == IF file.ok THEN file.lines ELSE <<>>

\* cacheJson[name]
JsonAt(json, name) ==
    LET hits == {j \in 1..Len(json) : json[j].key = name}
    IN  IF hits = {} THEN JsonNull
        ELSE LET j == CHOOSE j \in hits : \A k \in hits : j <= k
             IN  [obj |-> json[j].obj, crc |-> json[j].crc, color |-> json[j].color]

\* The cache test with the checksum comparison left out.
CacheHit_anyCrc(key, zipcrc) == key.obj

\* key.is_object() && key["crc"].number_value() == zipcrc
CacheHit(key, zipcrc) == key.obj /\ JsonNumber(key.crc) = zipcrc

\* hadToRecompute assigned from the current entry alone.
DirtyAfter_lastOnly(hadToRecompute, hit) == ~hit

\* hadToRecompute after one more entry: set on a miss, never cleared.
DirtyAfter(hadToRecompute, hit) == IF hit THEN hadToRecompute ELSE TRUE

\* The map updated with insert(), which keeps an entry that is already there.
StoreColor_insert(map, name, color, zipcrc) ==
    IF BlockIDFromString(name) \in DOMAIN map THEN map
    ELSE Put(map, BlockIDFromString(name), [color |-> color, crc |-> zipcrc])

\* blockColors[name] = {color, zipcrc}; name is converted to a BlockID.
StoreColor(map, name, color, zipcrc) ==
    Put(map, BlockIDFromString(name), [color |-> color, crc |-> zipcrc])

\* The body of the loop of load() for one archive entry.
LoadEntry(st, cacheJson, entry) ==
    LET zipcrc == entry.crc
        name   == Substr(entry.name, 0, Find(entry.name, ".", 0))
        key    == JsonAt(cacheJson, name)
        hit    == CacheHit(key, zipcrc)
        color  == IF hit THEN SDL_GetRGBA(JsonNumber(key.color))
                  ELSE computeColor(entry.img)
    IN  [map            |-> StoreColor(st.map, name, color, zipcrc),
         hadToRecompute |-> DirtyAfter(st.hadToRecompute, hit),
         trace          |-> Append(st.trace, [hit |-> hit, color |-> color])]

\* The loop of load() from entry i on.
RECURSIVE LoadLoop(_, _, _, _)
LoadLoop(st, cacheJson, entries, i) ==
    IF i > Len(entries) THEN st
    ELSE LoadLoop(LoadEntry(st, cacheJson, entries[i]), cacheJson, entries, i + 1)

\* The keys of a map in the order of BlockID::operator<, as std::map iterates.
RECURSIVE SortedKeys(_)
SortedKeys(keys) ==
    IF keys = {} THEN <<>>
    ELSE LET first == CHOOSE k \in keys : \A o \in keys : ~BlockIDLess(o, k)
         IN  <<first>> \o SortedKeys(keys \ {first})

\* The members saveNewJsonCache writes for a map, in order.
CacheText(map) ==
    LET keys == SortedKeys(DOMAIN map)
    IN  [j \in 1..Len(keys) |->
            [key   |-> BlockIDToString(keys[j]),
             obj   |-> TRUE,
             crc   |-> IntToStr(map[keys[j]].crc),
             color |-> IntToStr(SDL_MapRGBA(map[keys[j]].color))]]

\* BlockColors::saveNewJsonCache: the file after the call.  Nothing is
\* written when the stream is not open.
saveNewJsonCache(map, file, isOpen) ==
    IF isOpen THEN [ok |-> TRUE, lines |-> CacheText(map)] ELSE file

\* What a call of load() did:
\*   tick      flips at every call
\*   status    "none" (never called) | "ok" (returned) | "fatal" (error())
\*   opened    ZipFile::Open returned an archive
\*   cacheRead the cache file was read and parsed
\*   trace     per enumerated entry, whether the cache was used, and the colour
\*   dirty     the final value of hadToRecompute
\*   canWrite  an ofstream on the cache file opens (FALSE when the call
\*             ended before that could matter)
\*   wrote     the cache file was written
NoRun == [tick |-> 0, status |-> "none", opened |-> FALSE, cacheRead |-> FALSE,
          trace |-> <<>>, dirty |-> FALSE, canWrite |-> FALSE, wrote |-> FALSE]

\* error(...): the fatal error routine of utility.h; it does not return, and
\* the call of load() ends there.
error(map, file, tick, opened) ==
    [map |-> map, file |-> file,
     run |-> [tick |-> 1 - tick, status |-> "fatal", opened |-> opened,
              cacheRead |-> FALSE, trace |-> <<>>, dirty |-> FALSE,
              canWrite |-> FALSE, wrote |-> FALSE]]

\* load() from the parse of the cache file on.
LoadBody(map, file, entries, tick, opened, canWrite) ==
    LET cacheJson == JsonParse(file)
        fin == LoadLoop([map |-> map, hadToRecompute |-> FALSE, trace |-> <<>>],
                        cacheJson, entries, 1)
    IN  [map  |-> fin.map,
         file |-> IF fin.hadToRecompute
                  THEN saveNewJsonCache(fin.map, file, canWrite)
                  ELSE file,
         run  |-> [tick |-> 1 - tick, status |-> "ok", opened |-> opened,
                   cacheRead |-> TRUE, trace |-> fin.trace,
                   dirty |-> fin.hadToRecompute,
                   canWrite |-> canWrite,
                   wrote |-> fin.hadToRecompute /\ canWrite]]

\* load() without the test of the archive pointer.
load_noNullCheck(map, file, entries, tick, opened, canWrite) ==
    LoadBody(map, file, entries, tick, opened, canWrite)

\* BlockColors::load
load(map, file, entries, tick, opened, canWrite) ==
    IF ~opened THEN error(map, file, tick, opened)
    ELSE LoadBody(map, file, entries, tick, opened, canWrite)

\* getBlockColor returning opaque black for an unknown block.
getBlockColor_opaque(map, id, meta) ==
    IF BlockID(id, meta) \in DOMAIN map THEN map[BlockID(id, meta)].color
    ELSE <<0, 0, 0, 255>>

\* BlockColors::getBlockColor
getBlockColor(map, id, meta) ==
    IF BlockID(id, meta) \in DOMAIN map THEN map[BlockID(id, meta)].color
    ELSE <<0, 0, 0, 0>>

(***************************************************************************)
(* Idle values of the variables a specification does not use               *)
(***************************************************************************)
IdleId     == str = <<>> /\ bid = NoBlockID /\ out = NoString
IdleColor  == image = [w |-> 0, h |-> 0, pixels |-> <<>>] /\ avg = NoColor
IdleRegion == /\ dirOk = TRUE /\ dirEntries = <<>> /\ regions = EmptyMap
              /\ built = "no" /\ size = NoSize
IdleStore  == /\ archive = <<>> /\ cacheFile = [ok |-> FALSE, lines |-> <<>>]
              /\ blockColors = EmptyMap /\ run = NoRun /\ ret = NoQuery

\* All strings over an alphabet of length at most n.
AllStrings(alphabet, n) == UNION {[1..k -> alphabet] : k \in 0..n}

(***************************************************************************)
(* Specification SpecId: one string is parsed into a BlockID, which is     *)
(* then converted back to a string.                                        *)
(***************************************************************************)
MaxStrLen == 5
IdAlphabet == {"0", "1", "-", ".", "p"}

InitId ==
    /\ str \in AllStrings(IdAlphabet, MaxStrLen)
    /\ bid = NoBlockID /\ out = NoString
    /\ IdleColor /\ IdleRegion /\ IdleStore

\* BlockID b(str);
ParseBlockID ==
    /\ bid.st = "none"
    /\ bid' = IF BlockIDFromStringThrows(str)
              THEN [st |-> "thrown", id |-> 0, meta |-> 0]
              ELSE [st   |-> "ok",
                    id   |-> BlockIDFromString(str)[1],
                    meta |-> BlockIDFromString(str)[2]]
    /\ UNCHANGED <<str, out, colorVars, regionVars, storeVars>>

\* std::string s = b;
ConvertBlockID ==
    /\ bid.st = "ok"
    /\ ~out.done
    /\ out' = [done |-> TRUE, s |-> BlockIDToString(BlockID(bid.id, bid.meta))]
    /\ UNCHANGED <<str, bid, colorVars, regionVars, storeVars>>

NextId == ParseBlockID \/ ConvertBlockID
SpecId == InitId /\ [][NextId]_vars

\* s is "<id>-<meta>.<ext>" with <id> and <meta> non-empty digit strings.
AllDigits(s) == s # <<>> /\ \A i \in 1..Len(s) : IsDigit(s[i])
IsIdMetaExt(s) ==
    LET dash == Find(s, "-", 0)
        dot  == Find(s, ".", 0)
    IN  /\ dash # Npos /\ dot # Npos /\ dash < dot
        /\ AllDigits(SubSeq(s, 1, dash))
        /\ AllDigits(SubSeq(s, dash + 2, dot))
IdPart(s)   == SubSeq(s, 1, Find(s, "-", 0))
MetaPart(s) == SubSeq(s, Find(s, "-", 0) + 2, Find(s, ".", 0))
HasDash(s)  == \E i \in 1..Len(s) : s[i] = "-"

\* The value of the longest run of leading digits of s, 0 when it is empty.
RECURSIVE DigitPrefixLen(_)
DigitPrefixLen(s) ==
    IF s # <<>> /\ IsDigit(Head(s)) THEN 1 + DigitPrefixLen(Tail(s)) ELSE 0
RECURSIVE DecimalValue(_)
DecimalValue(s) ==
    IF s = <<>> THEN 0
    ELSE 10 * DecimalValue(SubSeq(s, 1, Len(s) - 1)) + DigitVal(s[Len(s)])
NumericPrefix(s) == DecimalValue(SubSeq(s, 1, DigitPrefixLen(s)))

\* A digit string without its superfluous leading zeros.
RECURSIVE StripZeros(_)
StripZeros(s) ==
    IF Len(s) > 1 /\ Head(s) = "0" THEN StripZeros(Tail(s)) ELSE s

\* The half of C8 about strings without '-': no error, id the numeric
\* prefix, meta the default 0.
NoDashParse ==
    (bid.st # "none" /\ ~HasDash(str)) =>
        /\ bid.st = "ok"
        /\ bid.id = NumericPrefix(str)
        /\ bid.meta = 0

\* C8 as stated: for every string "<id>-<meta>.<ext>" with <id> and <meta>
\* digit strings, BlockID(str) converted back to a string is "<id>-<meta>";
\* and for every string without '-', parsing raises no error, id is the
\* numeric prefix and meta is 0.
C8_RoundTripOriginal ==
    /\ (out.done /\ IsIdMetaExt(str)) =>
            out.s = IdPart(str) \o <<"-">> \o MetaPart(str)
    /\ NoDashParse

\* C8 as amended: the conversion gives <id> and <meta> without their
\* superfluous leading zeros, joined by '-'; so it gives "<id>-<meta>" itself
\* exactly when neither has a superfluous leading zero.  The half about
\* strings without '-' is unchanged.
C8_RoundTripCanonical ==
    /\ (out.done /\ IsIdMetaExt(str)) =>
            /\ out.s = StripZeros(IdPart(str)) \o <<"-">> \o StripZeros(MetaPart(str))
            /\ (out.s = IdPart(str) \o <<"-">> \o MetaPart(str)) <=>
                   (/\ StripZeros(IdPart(str)) = IdPart(str)
                    /\ StripZeros(MetaPart(str)) = MetaPart(str))
    /\ NoDashParse

\* A string with a leading zero in <id> and a non-zero <meta> has been parsed
\* and converted back.
C8_Witness ==
    /\ out.done /\ IsIdMetaExt(str)
    /\ IdPart(str) = <<"0", "1">> /\ MetaPart(str) = <<"1">>
    /\ out.s = <<"1", "-", "1">>

(***************************************************************************)
(* Specification SpecColor: computeColor is applied to one decoded image.  *)
(***************************************************************************)
MaxPixels == 3
PixelValues ==
    {<<r, g, b, a>> : r \in {10, 101}, g \in {0, 50}, b \in {3}, a \in {0, 128, 255}}

InitColor ==
    /\ \E n \in 1..MaxPixels : \E px \in [1..n -> PixelValues] :
           image = [w |-> n, h |-> 1, pixels |-> px]
    /\ avg = NoColor
    /\ IdleId /\ IdleRegion /\ IdleStore

\* SDL_Color c = computeColor(entry);
ComputeColorCall ==
    /\ ~avg.done
    /\ avg' = [done |-> TRUE, color |-> computeColor(image)]
    /\ UNCHANGED <<image, idVars, regionVars, storeVars>>

NextColor == ComputeColorCall
SpecColor == InitColor /\ [][NextColor]_vars

\* The number of pixels of a buffer whose alpha is not 0.
RECURSIVE CountOpaque(_)
CountOpaque(pixels) ==
    IF pixels = <<>> THEN 0
    ELSE (IF Head(pixels)[4] # 0 THEN 1 ELSE 0) + CountOpaque(Tail(pixels))

\* C9: for an image with at least one pixel whose alpha is not 0,
\* computeColor returns (sumR div n, sumG div n, sumB div n, 255) where the
\* sums run over the non-transparent pixels and n is the number of those
\* pixels, not the total pixel count.
C9_AverageOverOpaque ==
    (avg.done /\ CountOpaque(image.pixels) >= 1) =>
        LET n == CountOpaque(image.pixels)
        IN  avg.color = <<SumChannel(image.pixels, 1) \div n,
                          SumChannel(image.pixels, 2) \div n,
                          SumChannel(image.pixels, 3) \div n, 255>>

(***************************************************************************)
(* Specification SpecRegion: a RegionFileWorld is constructed on a         *)
(* directory, then asked for its size.                                     *)
(***************************************************************************)
MaxDirEntries == 3
MaxNameLen == 6
NameAlphabet == {"r", ".", "-", "1"}
SampleNames ==
    { <<".">>, <<".", ".">>,
      <<"g", "a", "r", "b", "a", "g", "e">>,
      <<"r", ".", "3", ".", "-", "2", ".", "m", "c", "a">>,
      <<"r", ".", "0", ".", "0", ".", "m", "c", "a">>,
      <<"r", ".", "2", ".", "3", ".", "m", "c", "a">>,
      <<"r", ".", "-", "1", ".", "0", ".", "m", "c", "a">>,
      <<"r", ".", "1", ".", "0", ".", "m", "c", "a">>,
      <<"r", ".", "-", "2", ".", "-", "1", ".", "m", "c", "a">> }

\* A directory holds a few of the sample names, or "." and ".." and one
\* arbitrary short name.
InitRegion ==
    /\ dirOk \in BOOLEAN
    /\ \/ \E n \in 0..MaxDirEntries : dirEntries \in [1..n -> SampleNames]
       \/ \E f \in AllStrings(NameAlphabet, MaxNameLen) :
              dirEntries = <<<<".">>, <<".", ".">>, f>>
    /\ regions = EmptyMap /\ built = "no" /\ size = NoSize
    /\ IdleId /\ IdleColor /\ IdleStore

\* RegionFileWorld::RegionFileWorld(rootpath)
NewRegionFileWorld ==
    /\ built = "no"
    /\ IF dirOk
       THEN /\ regions' = ReadDirLoop(dirEntries, 1, regions)
            /\ built' = "yes"
       ELSE /\ regions' = regions
            /\ built' = "fatal"
    /\ UNCHANGED <<dirOk, dirEntries, size, idVars, colorVars, storeVars>>

\* SDL_Point p = world.getSize();
GetSizeCall ==
    /\ built = "yes"
    /\ ~size.done
    /\ size' = [done |-> TRUE, x |-> getSize(regions)[1], y |-> getSize(regions)[2]]
    /\ UNCHANGED <<dirOk, dirEntries, regions, built, idVars, colorVars, storeVars>>

NextRegion == NewRegionFileWorld \/ GetSizeCall
SpecRegion == InitRegion /\ [][NextRegion]_vars

\* C6 as stated: getSize() takes the minimum and maximum of x and of z over
\* exactly the loaded coordinates and returns (32*16*(maxx+minx),
\* 32*16*(maxz+minz)), for every non-empty set of loaded coordinates.
C6_SizeOverLoadedCoords ==
    (size.done /\ DOMAIN regions # {}) =>
        LET xs   == {c[1] : c \in DOMAIN regions}
            zs   == {c[2] : c \in DOMAIN regions}
            minx == CHOOSE v \in xs : \A u \in xs : v <= u
            minz == CHOOSE v \in zs : \A u \in zs : v <= u
            maxx == CHOOSE v \in xs : \A u \in xs : v >= u
            maxz == CHOOSE v \in zs : \A u \in zs : v >= u
        IN  /\ size.x = 512 * (maxx + minx)
            /\ size.y = 512 * (maxz + minz)

\* How far a set of coordinates reaches above 0 and below 0.
ReachAbove(vs) ==
    IF \E v \in vs : v > 0
    THEN CHOOSE v \in vs : \A u \in vs : v >= u
    ELSE 0
ReachBelow(vs) ==
    IF \E v \in vs : v < 0
    THEN CHOOSE v \in vs : \A u \in vs : v <= u
    ELSE 0

\* C6 as amended: the minima and maxima start at 0, so maxx is the largest
\* x above 0 (else 0) and minx the smallest x below 0 (else 0), likewise for
\* z, and getSize() returns (32*16*(maxx+minx), 32*16*(maxz+minz)); regions
\* {(0,0),(2,3)} give (1024,1536), regions {(-1,0),(1,0)} give width 0, and
\* the lone region (2,3) gives (1024,1536) too.
C6_SizeOverCoordsAndOrigin ==
    size.done =>
        LET xs == {c[1] : c \in DOMAIN regions}
            zs == {c[2] : c \in DOMAIN regions}
        IN  /\ size.x = 512 * (ReachAbove(xs) + ReachBelow(xs))
            /\ size.y = 512 * (ReachAbove(zs) + ReachBelow(zs))
            /\ DOMAIN regions = {<<0, 0>>, <<2, 3>>} => (size.x = 1024 /\ size.y = 1536)
            /\ DOMAIN regions = {<<-1, 0>>, <<1, 0>>} => size.x = 0
            /\ DOMAIN regions = {<<2, 3>>} => (size.x = 1024 /\ size.y = 1536)

\* The size of a world whose only region is (2,3) has been computed.
C6_Witness ==
    /\ size.done /\ DOMAIN regions = {<<2, 3>>}
    /\ size.x = 1024 /\ size.y = 1536

\* The positions (1-based) of the dots of a name, and the text between the
\* k-th and the (k+1)-th of them.
DotPositions(f) == {i \in 1..Len(f) : f[i] = "."}
RECURSIVE NthDot(_, _)
NthDot(f, k) ==
    LET first == CHOOSE i \in DotPositions(f) : \A j \in DotPositions(f) : i <= j
    IN  IF k = 1 THEN first
        ELSE first + NthDot(SubSeq(f, first + 1, Len(f)), k - 1)
Segment(f, k) == SubSeq(f, NthDot(f, k) + 1, NthDot(f, k + 1) - 1)
HasThreeDots(f) == Cardinality(DotPositions(f)) >= 3

\* A signed decimal integer: an optional '-' and at least one digit.
IsSignedDecimal(s) ==
    \/ AllDigits(s)
    \/ (s # <<>> /\ Head(s) = "-" /\ AllDigits(Tail(s)))
SignedDecimalValue(s) ==
    IF Head(s) = "-" THEN 0 - DecimalValue(Tail(s)) ELSE DecimalValue(s)

\* The names loaded into some RegionFile of the map.
LoadedNames ==
    UNION {{regions[c][i] : i \in 1..Len(regions[c])} : c \in DOMAIN regions}

\* C7: a name is valid iff it has three dots; a valid name whose second and
\* third segments are signed decimal integers x and z is loaded under the
\* key (x, z), so "r.3.-2.mca" goes to (3,-2); the constructor adds no entry
\* for a name with fewer than three dots.
C7_ParseFilename ==
    (built = "yes") =>
        /\ \A i \in 1..Len(dirEntries) :
              LET f == dirEntries[i]
              IN  /\ (f \in LoadedNames) <=> HasThreeDots(f)
                  /\ (/\ HasThreeDots(f)
                      /\ IsSignedDecimal(Segment(f, 1))
                      /\ IsSignedDecimal(Segment(f, 2))) =>
                        LET c == <<SignedDecimalValue(Segment(f, 1)),
                                   SignedDecimalValue(Segment(f, 2))>>
                        IN  /\ c \in DOMAIN regions
                            /\ \E k \in 1..Len(regions[c]) : regions[c][k] = f
        /\ LoadedNames \subseteq {dirEntries[i] : i \in 1..Len(dirEntries)}
        /\ Cardinality(DOMAIN regions) <=
               Cardinality({i \in 1..Len(dirEntries) : HasThreeDots(dirEntries[i])})

\* "garbage" and "r.3.-2.mca" were read from the directory: the map holds the
\* one key (3,-2).
C7_Witness ==
    /\ built = "yes"
    /\ dirEntries = << <<"g", "a", "r", "b", "a", "g", "e">>,
                       <<"r", ".", "3", ".", "-", "2", ".", "m", "c", "a">> >>
    /\ DOMAIN regions = {<<3, -2>>}

(***************************************************************************)
(* Specifications SpecStore and SpecQuery: a BlockColors store over one    *)
(* archive and one cache file.  In SpecStore load() is called any number   *)
(* of times; in SpecQuery load() and getBlockColor() are called in any     *)
(* order.                                                                  *)
(***************************************************************************)
MaxEntries == 2
MaxLines == 1

ImgA == [w |-> 1, h |-> 1, pixels |-> <<<<10, 20, 30, 255>>>>]
ImgB == [w |-> 2, h |-> 1, pixels |-> <<<<100, 50, 3, 255>>, <<0, 0, 0, 0>>>>]
\* The entries an archive is made of; an entry's checksum is that of its
\* content.
StoreEntries ==
    { [name |-> <<"1", "-", "0", ".", "p">>,      crc |-> 5, img |-> ImgA],
      [name |-> <<"1", "-", "0", ".", "p">>,      crc |-> 6, img |-> ImgB],
      [name |-> <<"1", ".", "p">>,                crc |-> 5, img |-> ImgA],
      [name |-> <<"0", "1", "-", "0", ".", "p">>, crc |-> 5, img |-> ImgA],
      [name |-> <<"2", "-", "1", ".", "p">>,      crc |-> 6, img |-> ImgB] }
CachedColor == <<1, 2, 3, 255>>
CacheKeys == { <<"1", "-", "0">>, <<"1">>, <<"2", "-", "1">> }
CacheLines ==
    {[key |-> k, obj |-> TRUE, crc |-> c, color |-> IntToStr(SDL_MapRGBA(CachedColor))] :
        k \in CacheKeys, c \in {<<"5">>, <<"6">>}}
    \cup {[key |-> <<"1", "-", "0">>, obj |-> FALSE, crc |-> <<>>, color |-> <<>>]}
QueryIds == {1, 2}
QueryMetas == {0}

InitStore ==
    /\ \E n \in 0..MaxEntries :
          /\ archive \in [1..n -> StoreEntries]
          /\ \A i, j \in 1..n : i # j => archive[i].name # archive[j].name
    /\ \/ cacheFile = [ok |-> FALSE, lines |-> <<>>]
       \/ \E n \in 0..MaxLines : \E ls \in [1..n -> CacheLines] :
             /\ \A i, j \in 1..n : i # j => ls[i].key # ls[j].key
             /\ cacheFile = [ok |-> TRUE, lines |-> ls]
    /\ blockColors = EmptyMap /\ run = NoRun /\ ret = NoQuery
    /\ IdleId /\ IdleColor /\ IdleRegion

\* store.load(zipFileName, cacheFileName); the archive can be opened or not,
\* and the cache file can be opened for writing or not.
Load ==
    \E opened \in BOOLEAN, canWrite \in BOOLEAN :
        LET r == load(blockColors, cacheFile, archive, run.tick, opened, canWrite)
        IN  /\ blockColors' = r.map
            /\ cacheFile' = r.file
            /\ run' = r.run
            /\ UNCHANGED <<archive, ret, idVars, colorVars, regionVars>>

\* SDL_Color c = store.getBlockColor(id, meta);
GetBlockColor ==
    \E id \in QueryIds, meta \in QueryMetas :
        /\ ret' = [done |-> TRUE, id |-> id, meta |-> meta,
                   color |-> getBlockColor(blockColors, id, meta)]
        /\ UNCHANGED <<archive, cacheFile, blockColors, run,
                       idVars, colorVars, regionVars>>

NextStore == Load
SpecStore == InitStore /\ [][NextStore]_vars

NextQuery == Load \/ GetBlockColor
SpecQuery == InitStore /\ [][NextQuery]_vars

\* A step is a call of load() / a call of load() that returned.
LoadStep == run'.tick # run.tick
LoadReturned == LoadStep /\ run'.status = "ok"

\* The name of an entry up to its first dot: its key in the cache file.
KeyText(name) ==
    IF DotPositions(name) = {} THEN name ELSE SubSeq(name, 1, NthDot(name, 1) - 1)
\* The last entry of the archive with the same BlockID as entry i.
LastWithKey(i) ==
    CHOOSE j \in i..Len(archive) :
        /\ BlockIDFromString(archive[j].name) = BlockIDFromString(archive[i].name)
        /\ \A k \in (j + 1)..Len(archive) :
              BlockIDFromString(archive[k].name) # BlockIDFromString(archive[i].name)
DistinctBlockIDs ==
    \A i, j \in 1..Len(archive) :
        i # j => BlockIDFromString(archive[i].name) # BlockIDFromString(archive[j].name)

\* C1 as stated: after load() returns, every archive entry has its BlockID in
\* the map with the entry's own CRC, and the map has no other entry.
C1_EveryEntryCurrentOriginal ==
    [][LoadReturned =>
        /\ \A i \in 1..Len(archive) :
              /\ BlockIDFromString(archive[i].name) \in DOMAIN blockColors'
              /\ blockColors'[BlockIDFromString(archive[i].name)].crc = archive[i].crc
        /\ DOMAIN blockColors' =
              {BlockIDFromString(archive[i].name) : i \in 1..Len(archive)}]_vars

\* C1 as amended: after load() returns, every archive entry has its BlockID
\* in the map, the map has no other entry, and the checksum stored under a
\* BlockID is the CRC of the last archive entry with that BlockID: the entry's
\* own CRC unless a later entry has the same BlockID.
C1_EveryEntryLastCurrent ==
    [][LoadReturned =>
        /\ \A i \in 1..Len(archive) :
              /\ BlockIDFromString(archive[i].name) \in DOMAIN blockColors'
              /\ blockColors'[BlockIDFromString(archive[i].name)].crc
                    = archive[LastWithKey(i)].crc
        /\ DOMAIN blockColors' =
              {BlockIDFromString(archive[i].name) : i \in 1..Len(archive)}]_vars

\* "1.p" (CRC 5) then "1-0.p" (CRC 6) were loaded: one key, with CRC 6.
C1_Witness ==
    /\ run.status = "ok"
    /\ Len(archive) = 2
    /\ archive[1].name = <<"1", ".", "p">> /\ archive[1].crc = 5
    /\ archive[2].name = <<"1", "-", "0", ".", "p">> /\ archive[2].crc = 6
    /\ DOMAIN blockColors = {<<1, 0>>}
    /\ blockColors[<<1, 0>>].crc = 6

\* The cache file holds an object at the entry's key whose stored crc is the
\* entry's CRC.
CacheValid(file, entry) ==
    /\ file.ok
    /\ \E j \in 1..Len(file.lines) :
          /\ file.lines[j].key = KeyText(entry.name)
          /\ file.lines[j].obj
          /\ AllDigits(file.lines[j].crc)
          /\ DecimalValue(file.lines[j].crc) = entry.crc
\* The colour stored in the cache file at the entry's key.
CachedColorOf(file, entry) ==
    LET j == CHOOSE j \in 1..Len(file.lines) : file.lines[j].key = KeyText(entry.name)
    IN  SDL_GetRGBA(DecimalValue(file.lines[j].color))
\* The decision of load() for every entry, and the dirty flag.
CacheDecision ==
    /\ Len(run'.trace) = Len(archive)
    /\ \A i \in 1..Len(archive) :
          /\ run'.trace[i].hit <=> CacheValid(cacheFile, archive[i])
          /\ run'.trace[i].hit =>
                run'.trace[i].color = CachedColorOf(cacheFile, archive[i])
          /\ ~run'.trace[i].hit =>
                run'.trace[i].color = computeColor(archive[i].img)
    /\ run'.dirty <=> \E i \in 1..Len(archive) : ~CacheValid(cacheFile, archive[i])
\* What the file holds after the call.
CacheFileAfter ==
    /\ run'.wrote => cacheFile' = [ok |-> TRUE, lines |-> CacheText(blockColors')]
    /\ ~run'.wrote => cacheFile' = cacheFile

\* C3 as stated: an entry's colour comes from the cache iff the cache holds an
\* object at its key with the entry's CRC, otherwise it is recomputed and
\* the dirty flag is set; the cache file is written, from the complete map,
\* if and only if at least one entry was a miss.
C3_CacheDecisionOriginal ==
    [][LoadReturned =>
        /\ CacheDecision
        /\ CacheFileAfter
        /\ run'.wrote <=> \E i \in 1..Len(archive) : ~run'.trace[i].hit]_vars

\* C3 as amended: the same decision per entry; saveNewJsonCache is called if
\* and only if at least one entry was a miss, and the cache file is written,
\* from the complete map, if and only if at least one entry was a miss and
\* the file could be opened for writing; otherwise it is left as it was.
C3_CacheDecision ==
    [][LoadReturned =>
        /\ CacheDecision
        /\ CacheFileAfter
        /\ run'.wrote <=>
              (run'.canWrite /\ \E i \in 1..Len(archive) : ~run'.trace[i].hit)
        /\ run'.wrote => run'.dirty]_vars

\* A load that recomputed the entry "2-1.p" and rewrote the cache file with
\* the entry's current checksum.
C3_Witness ==
    /\ run.status = "ok" /\ run.wrote /\ run.dirty
    /\ Len(archive) = 2
    /\ archive[1].name = <<"1", "-", "0", ".", "p">>
    /\ archive[2].name = <<"2", "-", "1", ".", "p">> /\ archive[2].crc = 6
    /\ run.trace[2].hit = FALSE
    /\ cacheFile.ok /\ Len(cacheFile.lines) = 2
    /\ cacheFile.lines[2].key = <<"2", "-", "1">>
    /\ cacheFile.lines[2].crc = <<"6">>

\* C2, for a first load that had misses and wrote the cache file: the next
\* load of the same archive, the cache file as the first left it, calls
\* computeColor for no entry, leaves hadToRecompute false, and its color map
\* serializes to exactly the cache file.
C2_SecondLoadIdempotent ==
    [][(LoadReturned /\ run.status = "ok" /\ run.wrote) =>
        /\ \A i \in 1..Len(run'.trace) : run'.trace[i].hit
        /\ ~run'.dirty
        /\ cacheFile' = [ok |-> TRUE, lines |-> CacheText(blockColors')]]_vars

\* C4: getBlockColor(id, meta) changes nothing of the store and returns the
\* colour stored under BlockID(id, meta), or {0,0,0,0} when there is none.
C4_GetBlockColor ==
    [][(ret' # ret) =>
        /\ blockColors' = blockColors
        /\ cacheFile' = cacheFile /\ archive' = archive /\ run' = run
        /\ ret'.done
        /\ (<<ret'.id, ret'.meta>> \in DOMAIN blockColors) =>
              ret'.color = blockColors[<<ret'.id, ret'.meta>>].color
        /\ (<<ret'.id, ret'.meta>> \notin DOMAIN blockColors) =>
              ret'.color = <<0, 0, 0, 0>>]_vars

\* A query of a block the loaded store does not know returned {0,0,0,0}.
C4_Witness ==
    /\ run.status = "ok" /\ blockColors # EmptyMap
    /\ ret.done /\ <<ret.id, ret.meta>> \notin DOMAIN blockColors
    /\ ret.color = <<0, 0, 0, 0>>

Orders ==
    LET n == Len(archive)
        perms == {p \in [1..n -> 1..n] : \A i, j \in 1..n : i # j => p[i] # p[j]}
    IN  {[i \in 1..n |-> archive[p[i]]] : p \in perms}
\* load() of the entries in the given order, from the state before the call.
LoadInOrder(entries) ==
    LoadLoop([map |-> blockColors, hadToRecompute |-> FALSE, trace |-> <<>>],
             JsonParse(cacheFile), entries, 1)

\* C10 as stated: every enumeration order of the entries gives the same
\* final color map and the same dirty flag.
C10_OrderIndependentOriginal ==
    [][LoadReturned =>
        \A o \in Orders :
            LET r == LoadInOrder(o)
            IN  /\ r.map = blockColors'
                /\ r.hadToRecompute = run'.dirty]_vars

\* C10 as amended: every enumeration order gives the same keys and the same
\* dirty flag, and the same colour and checksum per key when no two entries
\* of the archive have the same BlockID; when two do, the one enumerated last
\* decides the colour and checksum of their key.
C10_OrderIndependent ==
    [][LoadReturned =>
        \A o \in Orders :
            LET r == LoadInOrder(o)
            IN  /\ DOMAIN r.map = DOMAIN blockColors'
                /\ r.hadToRecompute = run'.dirty
                /\ DistinctBlockIDs => r.map = blockColors'
                /\ \A i \in 1..Len(o) :
                      (\A k \in (i + 1)..Len(o) :
                          BlockIDFromString(o[k].name) # BlockIDFromString(o[i].name))
                      => r.map[BlockIDFromString(o[i].name)].crc = o[i].crc]_vars

\* Two entries with different BlockIDs, one found in the cache and one not,
\* were loaded.
C10_Witness ==
    /\ run.status = "ok" /\ Len(archive) = 2 /\ DistinctBlockIDs
    /\ run.trace[1].hit /\ ~run.trace[2].hit
    /\ Cardinality(DOMAIN blockColors) = 2

====
